---- MODULE Spec2Model ----
(***************************************************************************)
(* Model of the 21 Stones game: the Gymnasium environment StoneGameEnv     *)
(* (game_env.py), the interactive GameEngine (game_engine.py) and the      *)
(* tabular Q-learning trainer (train.py).                                  *)
(* Rewards are the floats -10.0, -1.0, 0.0, 1.0 of the source, written as   *)
(* the integers -10, -1, 0, 1.                                              *)
(***************************************************************************)
EXTENDS Integers, Sequences, FiniteSets, TLC

VARIABLES
    stones_remaining,   \* StoneGameEnv.stones_remaining
    ret,                \* the tuple returned by the last reset/step call
    call,               \* the last environment call and what it did
    episode,            \* the actions a caller passed to step since the last reset
    np_random,          \* the process-wide generator behind np.random
    env_np_random,      \* StoneGameEnv.np_random, the generator reset(seed) seeds
    q_table,            \* GameEngine.q_table (None when not loaded)
    running,            \* GameEngine.running
    game_state,         \* GameEngine.game_state: "menu", "playing", "game_over"
    turn,               \* GameEngine.turn: "human" or "ai"
    winner,             \* GameEngine.winner: "None", "Human" or "AI"
    last_move,          \* GameEngine.last_move, 0 standing for None
    ai_think_start_time,\* GameEngine.ai_think_start_time: 0, or 1 when set
    wins,               \* GameEngine.wins
    pc,                 \* position in GameEngine.run / run_game
    is_ai_turn,         \* the local is_ai_turn of run_game
    events,             \* the events of pygame.event.get() not yet handled
    handled,            \* the event the loop of run_game handled last
    args,               \* train.py: the parsed command line
    train_q_table,      \* train.py: q_table, a 22 x 3 array of float64
    train_episode,      \* train.py: episode, the index of the for loop
    current_state,      \* train.py: current_state
    done,               \* train.py: done
    epsilon,            \* train.py: epsilon
    episode_reward,     \* train.py: episode_reward
    saved,              \* train.py: the table written to q_table.npy
    tpc,                \* position in train.py's __main__
    episode_steps       \* the iterations of the while loop in this episode

envVars == <<stones_remaining, ret, call, episode>>

rngVars == <<np_random, env_np_random>>

engineVars == <<q_table, running, game_state, turn, winner, last_move,
                ai_think_start_time, wins, pc, is_ai_turn, events, handled>>

trainVars == <<args, train_q_table, train_episode, current_state, done,
               epsilon, episode_reward, saved, tpc, episode_steps>>

vars == <<stones_remaining, ret, call, episode, np_random, env_np_random,
          q_table, running, game_state, turn, winner, last_move,
          ai_think_start_time, wins, pc, is_ai_turn, events, handled,
          args, train_q_table, train_episode, current_state, done,
          epsilon, episode_reward, saved, tpc, episode_steps>>

----------------------------------------------------------------------------
(* Bounds *)

\* step calls followed within one episode (a terminated episode included)
MaxSteps == 7

\* events delivered to one frame of the interactive game
MaxEvents == 2

\* games the interactive engine plays
MaxGames == 2

\* the largest --total-episodes tried
MaxEpisodes == 2

----------------------------------------------------------------------------
(* StoneGameEnv *)

initial_stones == 21

\* spaces.Discrete(3)
action_space == 0..2

\* spaces.Discrete(initial_stones + 1)
observation_space == 0..initial_stones

\* np.random.randint(1, 4): the upper end is exclusive
randint_1_4 == 1..3

Min(a, b) == IF a <= b THEN a ELSE b

stones_to_take_mut(action) == action

stones_to_take(action) == action + 1

is_illegal_strict(action, s) == stones_to_take(action) >= s

\* if stones_to_take > self.stones_remaining
is_illegal(action, s) == stones_to_take(action) > s

illegal_return_mut == [observation |-> 0, reward |-> -1, terminated |-> TRUE]

illegal_return_unzeroed == [observation |-> 1, reward |-> -10, terminated |-> TRUE]

\* the triple returned on an illegal move, after stones_remaining = 0
illegal_return == [observation |-> 0, reward |-> -10, terminated |-> TRUE]

agent_won_mut(s) == FALSE

\* if self.stones_remaining == 0, after the agent's move
agent_won(s) == s = 0

\* the opponent's rule as the code computes it
opponent_rule(s) == (s - 1) % 4

opponent_clamp_mut(take, s) == take

\* min(opponent_stones_to_take, self.stones_remaining)
opponent_clamp(take, s) == Min(take, s)

\* the stones the opponent takes from s when the generator would draw d
opponent_stones_to_take(s, d) ==
    opponent_clamp(IF opponent_rule(s) = 0 THEN d ELSE opponent_rule(s), s)

\* whether the opponent's reply calls np.random.randint
opponent_draws(s) == opponent_rule(s) = 0

opponent_won_mut(s) == s <= 1

\* if self.stones_remaining == 0, after the opponent's move
opponent_won(s) == s = 0

continue_return_mut(s) == [observation |-> s, reward |-> 0, terminated |-> s < 2]

\* the triple returned when nobody has won
continue_return(s) == [observation |-> s, reward |-> 0, terminated |-> FALSE]

\* step(action) from s stones, d being the value randint returns if called:
\* the new stones_remaining, the returned triple, and what happened
step(s, action, d) ==
    IF is_illegal(action, s)
    THEN [stones |-> 0, ret |-> illegal_return,
          mid |-> s, opp |-> 0, drew |-> FALSE, branch |-> "illegal"]
    ELSE LET mid == s - stones_to_take(action) IN
         IF agent_won(mid)
         THEN [stones |-> mid,
               ret |-> [observation |-> mid, reward |-> 1, terminated |-> TRUE],
               mid |-> mid, opp |-> 0, drew |-> FALSE, branch |-> "win"]
         ELSE LET opp == opponent_stones_to_take(mid, d)
                  after == mid - opp
              IN [stones |-> after,
                  ret |-> IF opponent_won(after)
                          THEN [observation |-> after, reward |-> -1,
                                terminated |-> TRUE]
                          ELSE continue_return(after),
                  mid |-> mid, opp |-> opp, drew |-> opponent_draws(mid),
                  branch |-> "opponent"]

reset_offbyone(s) == initial_stones + 1

reset_lazy(s) == IF s = 0 THEN initial_stones ELSE s

\* self.stones_remaining = self.initial_stones
reset(s) == initial_stones

\* seed=None, also standing for a generator seeded from the system's entropy
NoSeed == 0 - 1

\* the seeds passed to reset(seed=...) and np.random.seed
Seeds == {1, 2}

\* a generator as seeded, and one after some draws
Seeded(seed) == [seed |-> seed, pos |-> 0]

NoCall == [op |-> "init", prev |-> "init", pre |-> initial_stones, action |-> 0,
           mid |-> 0, opp |-> 0, drew |-> FALSE, branch |-> "none",
           seed |-> NoSeed]

\* no event handled yet in this frame
NoEvent == [type |-> "NONE", button |-> 0]

(***************************************************************************)
(* Python floats: IEEE 754 binary64 with round-to-nearest-even, as used by *)
(* train.py.  A natural number is a sequence of limbs in base 2^15, least  *)
(* significant first, without leading zero limbs; a float is               *)
(* (-1)^sgn * man * 2^exp with man = 0 or 2^52 <= man < 2^53.  Subnormals, *)
(* infinities and NaN do not occur for the values the trainer computes.    *)
(***************************************************************************)

LimbBits == 15

LimbBase == 2 ^ LimbBits

\* significand bits of binary64
Precision == 53

RECURSIVE BigNorm(_)
BigNorm(a) ==
    IF a # <<>> /\ a[Len(a)] = 0 THEN BigNorm(SubSeq(a, 1, Len(a) - 1)) ELSE a

RECURSIVE BigFromInt(_)
BigFromInt(n) ==
    IF n = 0 THEN <<>> ELSE <<n % LimbBase>> \o BigFromInt(n \div LimbBase)

RECURSIVE IntBitLen(_)
IntBitLen(n) == IF n = 0 THEN 0 ELSE 1 + IntBitLen(n \div 2)

BigBitLen(a) ==
    IF a = <<>> THEN 0 ELSE LimbBits * (Len(a) - 1) + IntBitLen(a[Len(a)])

BigLimb(a, i) == IF i <= Len(a) THEN a[i] ELSE 0

RECURSIVE BigCmpFrom(_, _, _)
BigCmpFrom(a, b, i) ==
    IF i = 0 THEN 0
    ELSE IF BigLimb(a, i) > BigLimb(b, i) THEN 1
    ELSE IF BigLimb(a, i) < BigLimb(b, i) THEN 0 - 1
    ELSE BigCmpFrom(a, b, i - 1)

\* -1, 0 or 1 as a < b, a = b or a > b
BigCmp(a, b) == BigCmpFrom(a, b, IF Len(a) >= Len(b) THEN Len(a) ELSE Len(b))

RECURSIVE BigAddFrom(_, _, _, _)
BigAddFrom(a, b, i, carry) ==
    IF i > Len(a) /\ i > Len(b)
    THEN (IF carry = 0 THEN <<>> ELSE <<carry>>)
    ELSE LET sum == BigLimb(a, i) + BigLimb(b, i) + carry IN
         <<sum % LimbBase>> \o BigAddFrom(a, b, i + 1, sum \div LimbBase)

BigAdd(a, b) == BigAddFrom(a, b, 1, 0)

RECURSIVE BigSubFrom(_, _, _, _)
BigSubFrom(a, b, i, borrow) ==
    IF i > Len(a) THEN <<>>
    ELSE LET diff == BigLimb(a, i) - BigLimb(b, i) - borrow IN
         <<diff % LimbBase>>
            \o BigSubFrom(a, b, i + 1, IF diff < 0 THEN 1 ELSE 0)

\* a - b for a >= b
BigSub(a, b) == BigNorm(BigSubFrom(a, b, 1, 0))

RECURSIVE BigMulSmallFrom(_, _, _, _)
BigMulSmallFrom(a, k, i, carry) ==
    IF i > Len(a) THEN (IF carry = 0 THEN <<>> ELSE <<carry>>)
    ELSE LET prod == a[i] * k + carry IN
         <<prod % LimbBase>> \o BigMulSmallFrom(a, k, i + 1, prod \div LimbBase)

\* a * k for 0 <= k < 2^15
BigMulSmall(a, k) == BigNorm(BigMulSmallFrom(a, k, 1, 0))

BigShiftLimbs(a, n) == IF a = <<>> THEN <<>> ELSE [i \in 1..n |-> 0] \o a

RECURSIVE BigMulFrom(_, _, _)
BigMulFrom(a, b, i) ==
    IF i > Len(b) THEN <<>>
    ELSE BigAdd(BigShiftLimbs(BigMulSmall(a, b[i]), i - 1),
                BigMulFrom(a, b, i + 1))

BigMul(a, b) == BigNorm(BigMulFrom(a, b, 1))

\* a * 2^n
BigShl(a, n) == BigMulSmall(BigShiftLimbs(a, n \div LimbBits), 2 ^ (n % LimbBits))

RECURSIVE BigDivSmallFrom(_, _, _, _)
BigDivSmallFrom(a, k, i, rem) ==
    IF i = 0 THEN <<>>
    ELSE LET cur == rem * LimbBase + a[i] IN
         BigDivSmallFrom(a, k, i - 1, cur % k) \o <<cur \div k>>

\* floor(a / 2^n)
BigShr(a, n) ==
    LET dropped == IF n \div LimbBits >= Len(a) THEN <<>>
                   ELSE SubSeq(a, n \div LimbBits + 1, Len(a))
    IN BigNorm(BigDivSmallFrom(dropped, 2 ^ (n % LimbBits), Len(dropped), 0))

\* bit i of a, bit 0 being the least significant
BigBit(a, i) == (BigLimb(a, i \div LimbBits + 1) \div (2 ^ (i % LimbBits))) % 2

\* one step of long division by d: the next bit of the dividend comes in
BigDivStep(d, st, bit) ==
    LET cur == BigAdd(BigMulSmall(st.rem, 2), BigFromInt(bit))
        twice == BigMulSmall(st.quot, 2)
    IN IF BigCmp(cur, d) >= 0
       THEN [quot |-> BigAdd(twice, <<1>>), rem |-> BigSub(cur, d)]
       ELSE [quot |-> twice, rem |-> cur]

\* long division over the bits hi down to lo of n, split in halves to keep
\* the recursion shallow
RECURSIVE BigDivRange(_, _, _, _, _)
BigDivRange(n, d, hi, lo, st) ==
    IF hi = lo THEN BigDivStep(d, st, BigBit(n, hi))
    ELSE LET mid == (hi + lo + 1) \div 2
             upper == BigDivRange(n, d, hi, mid, st)
         IN \* the upper half is evaluated before the lower half starts
            IF Len(upper.quot) >= 0 THEN BigDivRange(n, d, mid - 1, lo, upper)
            ELSE upper

\* quotient and remainder of n by d > 0
BigDivMod(n, d) ==
    IF n = <<>> THEN [quot |-> <<>>, rem |-> <<>>]
    ELSE BigDivRange(n, d, BigBitLen(n) - 1, 0, [quot |-> <<>>, rem |-> <<>>])

FZero == [sgn |-> 0, man |-> <<>>, exp |-> 0]

\* the float nearest to (-1)^sgn * m * 2^e, ties to even; sticky says that
\* the exact value is a little above m * 2^e
FRound(sgn, m, e, sticky) ==
    IF m = <<>> THEN FZero
    ELSE LET len == BigBitLen(m) IN
         IF len <= Precision
         THEN [sgn |-> sgn, man |-> BigShl(m, Precision - len),
               exp |-> e - (Precision - len)]
         ELSE LET k == len - Precision
                  q == BigShr(m, k)
                  rest == BigSub(m, BigShl(q, k))
                  c == BigCmp(rest, BigShl(<<1>>, k - 1))
                  up == c > 0 \/ (c = 0 /\ (sticky \/ BigBit(q, 0) = 1))
                  r == IF up THEN BigAdd(q, <<1>>) ELSE q
              IN IF BigBitLen(r) > Precision
                 THEN [sgn |-> sgn, man |-> BigShr(r, 1), exp |-> e + k + 1]
                 ELSE [sgn |-> sgn, man |-> r, exp |-> e + k]

\* float(n) for an int n
FFromInt(n) ==
    IF n >= 0 THEN FRound(0, BigFromInt(n), 0, FALSE)
    ELSE FRound(1, BigFromInt(0 - n), 0, FALSE)

FNeg(x) == IF x.man = <<>> THEN x ELSE [x EXCEPT !.sgn = 1 - x.sgn]

\* x + y
FAdd(x, y) ==
    IF x.man = <<>> THEN y
    ELSE IF y.man = <<>> THEN x
    ELSE LET e == IF x.exp <= y.exp THEN x.exp ELSE y.exp
             a == BigShl(x.man, x.exp - e)
             b == BigShl(y.man, y.exp - e)
             c == BigCmp(a, b)
         IN IF x.sgn = y.sgn THEN FRound(x.sgn, BigAdd(a, b), e, FALSE)
            ELSE IF c = 0 THEN FZero
            ELSE IF c > 0 THEN FRound(x.sgn, BigSub(a, b), e, FALSE)
            ELSE FRound(y.sgn, BigSub(b, a), e, FALSE)

\* x - y
FSub(x, y) == FAdd(x, FNeg(y))

\* x * y
FMul(x, y) ==
    IF x.man = <<>> \/ y.man = <<>> THEN FZero
    ELSE FRound((x.sgn + y.sgn) % 2, BigMul(x.man, y.man), x.exp + y.exp, FALSE)

\* x / y for y # 0
FDiv(x, y) ==
    IF x.man = <<>> THEN FZero
    ELSE LET qr == BigDivMod(BigShl(x.man, Precision + 3), y.man) IN
         FRound((x.sgn + y.sgn) % 2, qr.quot, x.exp - y.exp - (Precision + 3),
                qr.rem # <<>>)

\* x < y
FLess(x, y) ==
    LET mag(a, b) ==  \* |a| < |b|
            IF b.man = <<>> THEN FALSE
            ELSE IF a.man = <<>> THEN TRUE
            ELSE a.exp < b.exp \/ (a.exp = b.exp /\ BigCmp(a.man, b.man) < 0)
    IN IF x.sgn = 0 /\ y.sgn = 0 THEN mag(x, y)
       ELSE IF x.sgn = 1 /\ y.sgn = 1 THEN mag(y, x)
       ELSE x.sgn = 1

\* the float a decimal literal num/den denotes: the float nearest to it
FDecimal(num, den) == FDiv(FFromInt(num), FFromInt(den))


FOne == FFromInt(1)

\* np.zeros((env.observation_space.n, env.action_space.n))
zeros == [s \in observation_space |-> [a \in action_space |-> FZero]]

\* max(a, b) of Python: a unless b is greater
max(a, b) == IF FLess(a, b) THEN b ELSE a

\* linear_schedule for duration # 0; current_step is an int
linear_schedule(start_epsilon, end_epsilon, duration, current_step) ==
    LET slope == FDiv(FSub(end_epsilon, start_epsilon), duration) IN
    max(end_epsilon, FAdd(start_epsilon, FMul(slope, FFromInt(current_step))))

\* args.exploration_fraction * args.total_episodes
duration_of(a) == FMul(a.exploration_fraction, FFromInt(a.total_episodes))

\* np.argmax(row): the first index of the maximum
argmax(row) ==
    CHOOSE a \in action_space :
        /\ \A b \in action_space : ~FLess(row[a], row[b])
        /\ \A b \in action_space : b < a => FLess(row[b], row[a])

\* np.max(q_table[next_state, :])
max_next_q(q, next_state) == q[next_state][argmax(q[next_state])]

new_q_value_nonterminal(q, s, action, reward, next_state, learning_rate, gamma) ==
    IF next_state = 0 THEN q[s][action]
    ELSE FAdd(q[s][action],
              FMul(learning_rate,
                   FSub(FAdd(FFromInt(reward),
                             FMul(gamma, max_next_q(q, next_state))),
                        q[s][action])))

\* old_q_value + learning_rate * (reward + gamma * max_next_q - old_q_value)
new_q_value(q, s, action, reward, next_state, learning_rate, gamma) ==
    FAdd(q[s][action],
         FMul(learning_rate,
              FSub(FAdd(FFromInt(reward),
                        FMul(gamma, max_next_q(q, next_state))),
                   q[s][action])))

\* the defaults of parse_args
DefaultArgs ==
    [seed |-> 1, total_episodes |-> 10000,
     learning_rate |-> FDecimal(5, 10), gamma |-> FDecimal(9, 10),
     start_epsilon |-> FFromInt(1), end_epsilon |-> FDecimal(5, 100),
     exploration_fraction |-> FDecimal(8, 10)]

\* command lines: --total-episodes, --exploration-fraction and
\* --learning-rate given, the other options left at their defaults
ArgsChoices ==
    {[DefaultArgs EXCEPT !.total_episodes = n, !.exploration_fraction = f,
                         !.learning_rate = lr] :
        n \in 0..MaxEpisodes,
        f \in {FZero, FDecimal(5, 10), FDecimal(8, 10)},
        lr \in {FDecimal(5, 10), FDecimal(15, 10)}}

\* no q_table.npy written
NoArtifact == [written |-> FALSE, q |-> zeros]

\* a process that does not run train.py
NoTrainer ==
    /\ args = DefaultArgs
    /\ train_q_table = zeros
    /\ train_episode = 0 - 1
    /\ current_state = 0
    /\ done = FALSE
    /\ epsilon = FZero
    /\ episode_reward = 0
    /\ saved = NoArtifact
    /\ tpc = "idle"
    /\ episode_steps = 0

\* the generators of a process that has seeded nothing
RngFields ==
    /\ np_random = Seeded(NoSeed)
    /\ env_np_random = Seeded(NoSeed)

\* a Q-table that ranks the moves leaving a multiple of 4 first
QOptimal == [s \in observation_space |->
                [a \in action_space |-> IF (s - (a + 1)) % 4 = 0 THEN 1 ELSE -1]]

\* the all-zero table training starts from
QZeros == [s \in observation_space |-> [a \in action_space |-> 0]]

\* a table that always ranks larger moves higher
QGreedy == [s \in observation_space |-> [a \in action_space |-> a]]

\* a table with a tie between taking 2 and taking 3
QTie == [s \in observation_space |->
            [a \in action_space |-> IF a = 0 THEN 0 ELSE 1]]

\* self.q_table = None
NoTable == [loaded |-> FALSE, q |-> QZeros]

\* the values q_table can have after GameEngine.__init__
QTableChoices ==
    {NoTable} \cup {[loaded |-> TRUE, q |-> q] : q \in {QOptimal, QZeros, QGreedy, QTie}}

\* the fields GameEngine.__init__ sets, but for q_table
EngineFields ==
    /\ running = TRUE
    /\ game_state = "menu"
    /\ turn = "human"
    /\ winner = "None"
    /\ last_move = [human |-> 0, ai |-> 0]
    /\ ai_think_start_time = 0
    /\ wins = [human |-> 0, ai |-> 0]
    /\ pc = "run"
    /\ is_ai_turn = FALSE
    /\ events = <<>>
    /\ handled = NoEvent

\* StoneGameEnv.__init__
Init ==
    /\ stones_remaining = initial_stones
    /\ ret = [observation |-> initial_stones, reward |-> 0, terminated |-> FALSE]
    /\ call = NoCall
    /\ episode = <<>>
    /\ q_table = NoTable
    /\ EngineFields
    /\ RngFields
    /\ NoTrainer

\* an environment whose stones_remaining is any value of the observation
\* space: step as a function of (stones_remaining, action, draw).  The
\* attribute is public and GameEngine assigns it every value of 0..21
\* (game_engine.py lines 109 and 142); from reset alone step only meets the
\* piles 21, 17, 13, 9, 5, 1 and 0.
InitStep ==
    /\ stones_remaining \in observation_space
    /\ ret = [observation |-> stones_remaining, reward |-> 0,
              terminated |-> FALSE]
    /\ call = [NoCall EXCEPT !.pre = stones_remaining]
    /\ episode = <<>>
    /\ q_table = NoTable
    /\ EngineFields
    /\ RngFields
    /\ NoTrainer

\* super().reset(seed=seed): gymnasium seeds self.np_random when a seed is
\* given; np.random is not touched
super_reset(seed) ==
    /\ env_np_random' = IF seed = NoSeed THEN env_np_random ELSE Seeded(seed)
    /\ UNCHANGED np_random

\* StoneGameEnv.reset(seed)
env_reset(seed) ==
    /\ super_reset(seed)
    /\ stones_remaining' = reset(stones_remaining)
    /\ ret' = [observation |-> stones_remaining', reward |-> 0,
               terminated |-> FALSE]
    /\ call' = [NoCall EXCEPT !.op = "reset", !.prev = call.op,
                              !.pre = stones_remaining, !.seed = seed]
    /\ episode' = <<>>

\* StoneGameEnv.step(action), d being the value randint returns if called
env_step(action, d) ==
    LET r == step(stones_remaining, action, d) IN
    /\ stones_remaining' = r.stones
    /\ ret' = r.ret
    /\ call' = [op |-> "step", prev |-> call.op, pre |-> stones_remaining,
                action |-> action, mid |-> r.mid, opp |-> r.opp,
                drew |-> r.drew, branch |-> r.branch, seed |-> NoSeed]
    /\ np_random' = IF r.drew THEN [np_random EXCEPT !.pos = @ + 1]
                     ELSE np_random
    /\ UNCHANGED env_np_random

\* a call of StoneGameEnv.reset
Reset ==
    /\ \E seed \in Seeds \cup {NoSeed} : env_reset(seed)
    /\ UNCHANGED engineVars
    /\ UNCHANGED trainVars

\* a call of StoneGameEnv.step
Step ==
    /\ Len(episode) < MaxSteps
    /\ \E action \in action_space, d \in randint_1_4 :
        /\ env_step(action, d)
        /\ episode' = Append(episode, action)
    /\ UNCHANGED engineVars
    /\ UNCHANGED trainVars

Next == Reset \/ Step

\* the environment from construction, driven by reset and step
Spec == Init /\ [][Next]_vars

\* step and reset from every value of stones_remaining
SpecStep == InitStep /\ [][Next]_vars

----------------------------------------------------------------------------
(* GameEngine *)

\* the events one frame can receive: QUIT, or MOUSEBUTTONDOWN on button
\* "Take k" (k in 1..3) or outside every button (k = 0)
EventKinds == {[type |-> "QUIT", button |-> 0]}
              \cup {[type |-> "MOUSEBUTTONDOWN", button |-> k] : k \in 0..3}

\* the results of pygame.event.get()
EventQueues == UNION {[1..n -> EventKinds] : n \in 0..MaxEvents}

\* random.randint(1, 3): both ends inclusive
randint_1_3 == 1..3

valid_actions_strict(state) == {a \in action_space : a + 1 < state}

\* [a for a in range(action_space.n) if (a + 1) <= state]
valid_actions(state) == {a \in action_space : a + 1 <= state}

action_to_take_last(q, state) ==
    CHOOSE a \in valid_actions(state) :
        /\ \A b \in valid_actions(state) : q[state][b] <= q[state][a]
        /\ \A b \in valid_actions(state) : q[state][b] = q[state][a] => b <= a

\* valid_actions[np.argmax(q_table[state, valid_actions])]: the first maximum
action_to_take(q, state) ==
    CHOOSE a \in valid_actions(state) :
        /\ \A b \in valid_actions(state) : q[state][b] <= q[state][a]
        /\ \A b \in valid_actions(state) : q[state][b] = q[state][a] => a <= b

\* the fallback of handle_ai_move, before the clamp
fallback_stones_to_take(s, d) == IF s % 4 = 0 THEN d ELSE s % 4

\* GameEngine.run_menu
RunMenu ==
    /\ pc = "run" /\ running /\ game_state = "menu"
    /\ UNCHANGED trainVars
    /\ wins.human + wins.ai < MaxGames
    /\ env_reset(NoSeed)
    /\ turn' = "human"
    /\ winner' = "None"
    /\ last_move' = [human |-> 0, ai |-> 0]
    /\ game_state' = "playing"
    /\ UNCHANGED <<q_table, running, ai_think_start_time, wins, pc, is_ai_turn,
                   events, handled>>

\* GameEngine.run_game up to pygame.event.get()
RunGameBegin ==
    /\ pc = "run" /\ running /\ game_state = "playing"
    /\ UNCHANGED trainVars
    /\ is_ai_turn' = (turn = "ai" /\ game_state = "playing")
    /\ events' \in EventQueues
    /\ pc' = "events"
    /\ handled' = NoEvent
    /\ UNCHANGED <<envVars, rngVars, q_table, running, game_state, turn, winner,
                   last_move, ai_think_start_time, wins>>

handle_human_move_clamped(stones) ==
    LET take == Min(stones, stones_remaining) IN
    IF stones_remaining > 0
    THEN /\ last_move' = [human |-> take, ai |-> 0]
         /\ stones_remaining' = stones_remaining - take
         /\ IF stones_remaining' = 0
            THEN /\ winner' = "Human"
                 /\ wins' = [wins EXCEPT !.human = @ + 1]
                 /\ game_state' = "game_over"
                 /\ UNCHANGED turn
            ELSE /\ turn' = "ai"
                 /\ UNCHANGED <<winner, wins, game_state>>
    ELSE UNCHANGED <<last_move, stones_remaining, winner, wins, game_state,
                     turn>>

\* GameEngine.handle_human_move
handle_human_move(stones) ==
    IF stones <= stones_remaining
    THEN /\ last_move' = [human |-> stones, ai |-> 0]
         /\ stones_remaining' = stones_remaining - stones
         /\ IF stones_remaining' = 0
            THEN /\ winner' = "Human"
                 /\ wins' = [wins EXCEPT !.human = @ + 1]
                 /\ game_state' = "game_over"
                 /\ UNCHANGED turn
            ELSE /\ turn' = "ai"
                 /\ UNCHANGED <<winner, wins, game_state>>
    ELSE UNCHANGED <<last_move, stones_remaining, winner, wins, game_state,
                     turn>>

\* one iteration of the event loop of run_game
RunGameEvent ==
    /\ pc = "events" /\ events # <<>>
    /\ UNCHANGED trainVars
    /\ events' = Tail(events)
    /\ handled' = Head(events)
    /\ LET event == Head(events) IN
        /\ running' = IF event.type = "QUIT" THEN FALSE ELSE running
        /\ IF event.type = "MOUSEBUTTONDOWN" /\ ~is_ai_turn /\ event.button # 0
           THEN handle_human_move(event.button)
           ELSE UNCHANGED <<last_move, stones_remaining, winner, wins,
                            game_state, turn>>
    /\ UNCHANGED <<ret, call, episode, rngVars, q_table, ai_think_start_time,
                   pc, is_ai_turn>>

handle_ai_move_miscredit(d) ==
    LET state == stones_remaining IN
    IF q_table.loaded /\ valid_actions(state) = {}
    THEN /\ winner' = "Human"
         /\ wins' = [wins EXCEPT !.human = @ + 1]
         /\ game_state' = "game_over"
         /\ UNCHANGED <<last_move, stones_remaining, turn>>
    ELSE LET wanted == IF q_table.loaded
                       THEN action_to_take(q_table.q, state) + 1
                       ELSE fallback_stones_to_take(state, d)
             stones == Min(wanted, stones_remaining)
         IN /\ last_move' = [last_move EXCEPT !.ai = stones]
            /\ stones_remaining' = stones_remaining - stones
            /\ IF stones_remaining' = 0
               THEN /\ winner' = "AI"
                    /\ wins' = [wins EXCEPT !.human = @ + 1]
                    /\ game_state' = "game_over"
                    /\ UNCHANGED turn
               ELSE /\ turn' = "human"
                    /\ UNCHANGED <<winner, wins, game_state>>

\* GameEngine.handle_ai_move, d being the value random.randint returns
handle_ai_move(d) ==
    LET state == stones_remaining IN
    IF q_table.loaded /\ valid_actions(state) = {}
    THEN /\ winner' = "Human"
         /\ wins' = [wins EXCEPT !.human = @ + 1]
         /\ game_state' = "game_over"
         /\ UNCHANGED <<last_move, stones_remaining, turn>>
    ELSE LET wanted == IF q_table.loaded
                       THEN action_to_take(q_table.q, state) + 1
                       ELSE fallback_stones_to_take(state, d)
             stones == Min(wanted, stones_remaining)
         IN /\ last_move' = [last_move EXCEPT !.ai = stones]
            /\ stones_remaining' = stones_remaining - stones
            /\ IF stones_remaining' = 0
               THEN /\ winner' = "AI"
                    /\ wins' = [wins EXCEPT !.ai = @ + 1]
                    /\ game_state' = "game_over"
                    /\ UNCHANGED turn
               ELSE /\ turn' = "human"
                    /\ UNCHANGED <<winner, wins, game_state>>

\* GameEngine.run_game after the event loop: the AI moves once more than
\* 1000 ticks have passed since ai_think_start_time was set
RunGameAI ==
    /\ pc = "events" /\ events = <<>>
    /\ UNCHANGED trainVars
    /\ pc' = "run"
    /\ IF is_ai_turn
       THEN \E elapsed \in BOOLEAN, d \in randint_1_3 :
                IF elapsed
                THEN /\ handle_ai_move(d)
                     /\ ai_think_start_time' = 0
                ELSE /\ ai_think_start_time' = 1
                     /\ UNCHANGED <<last_move, stones_remaining, winner, wins,
                                    game_state, turn>>
       ELSE UNCHANGED <<last_move, stones_remaining, winner, wins, game_state,
                        turn, ai_think_start_time>>
    /\ UNCHANGED <<ret, call, episode, rngVars, q_table, running, is_ai_turn,
                   events, handled>>

\* GameEngine.run_game_over
RunGameOver ==
    /\ pc = "run" /\ running /\ game_state = "game_over"
    /\ UNCHANGED trainVars
    /\ \E queue \in EventQueues :
        /\ running' = ~(\E i \in DOMAIN queue : queue[i].type = "QUIT")
        /\ game_state' = IF \E i \in DOMAIN queue :
                                queue[i].type = "MOUSEBUTTONDOWN"
                         THEN "menu" ELSE game_state
    /\ UNCHANGED <<envVars, rngVars, q_table, turn, winner, last_move,
                   ai_think_start_time, wins, pc, is_ai_turn, events, handled>>

\* GameEngine.run leaves its loop: pygame.quit(), sys.exit()
Exit ==
    /\ pc = "run" /\ ~running
    /\ UNCHANGED trainVars
    /\ pc' = "exit"
    /\ UNCHANGED <<envVars, rngVars, q_table, running, game_state, turn, winner,
                   last_move, ai_think_start_time, wins, is_ai_turn, events,
                   handled>>

\* GameEngine.__init__
InitEngine ==
    /\ stones_remaining = initial_stones
    /\ ret = [observation |-> initial_stones, reward |-> 0, terminated |-> FALSE]
    /\ call = NoCall
    /\ episode = <<>>
    /\ q_table \in QTableChoices
    /\ EngineFields
    /\ RngFields
    /\ NoTrainer

NextEngine ==
    \/ RunMenu
    \/ RunGameBegin
    \/ RunGameEvent
    \/ RunGameAI
    \/ RunGameOver
    \/ Exit

\* the interactive game
SpecEngine == InitEngine /\ [][NextEngine]_vars

----------------------------------------------------------------------------
(* train.py: the training loop of __main__ *)

\* train.py up to the for loop: arguments parsed, generators seeded,
\* environment constructed, table zeroed
InitTrain ==
    /\ stones_remaining = initial_stones
    /\ ret = [observation |-> initial_stones, reward |-> 0, terminated |-> FALSE]
    /\ call = NoCall
    /\ episode = <<>>
    /\ q_table = NoTable
    /\ EngineFields
    /\ args \in ArgsChoices
    /\ np_random = Seeded(args.seed)
    /\ env_np_random = Seeded(NoSeed)
    /\ train_q_table = zeros
    /\ train_episode = 0 - 1
    /\ current_state = 0
    /\ done = FALSE
    /\ epsilon = FZero
    /\ episode_reward = 0
    /\ saved = NoArtifact
    /\ tpc = "for"
    /\ episode_steps = 0

\* for episode in range(args.total_episodes): the next episode begins with
\* env.reset(seed=args.seed)
TrainEpisodeBegin ==
    /\ tpc = "for"
    /\ train_episode + 1 < args.total_episodes
    /\ train_episode' = train_episode + 1
    /\ env_reset(args.seed)
    /\ current_state' = ret'.observation
    /\ done' = FALSE
    /\ episode_reward' = 0
    /\ tpc' = "while"
    /\ episode_steps' = 0
    /\ UNCHANGED <<args, train_q_table, epsilon, saved>>
    /\ UNCHANGED engineVars

\* the actions the epsilon-greedy policy can choose: random.random() is in
\* [0, 1), so the sample is possible when 0 < eps and the argmax when eps < 1
policy_actions(eps, row) ==
    {a \in action_space :
        \/ FLess(FZero, eps)
        \/ FLess(eps, FOne) /\ a = argmax(row)}

\* one iteration of the while loop
TrainStep ==
    /\ tpc = "while"
    /\ duration_of(args) # FZero
    /\ epsilon' = linear_schedule(args.start_epsilon, args.end_epsilon,
                                  duration_of(args), train_episode)
    /\ \E action \in policy_actions(epsilon', train_q_table[current_state]),
          d \in randint_1_4 :
        /\ env_step(action, d)
        /\ train_q_table' =
              [train_q_table EXCEPT ![current_state][action] =
                  new_q_value(train_q_table, current_state, action, ret'.reward,
                              ret'.observation, args.learning_rate, args.gamma)]
    /\ current_state' = ret'.observation
    /\ episode_reward' = episode_reward + ret'.reward
    /\ done' = ret'.terminated
    /\ tpc' = IF done' THEN "for" ELSE "while"
    /\ episode_steps' = episode_steps + 1
    /\ UNCHANGED <<args, train_episode, saved, episode>>
    /\ UNCHANGED engineVars

\* linear_schedule divides by a duration of 0.0: ZeroDivisionError ends the run
TrainRaise ==
    /\ tpc = "while"
    /\ duration_of(args) = FZero
    /\ tpc' = "raised"
    /\ UNCHANGED <<args, train_q_table, train_episode, current_state, done,
                   epsilon, episode_reward, saved, episode_steps>>
    /\ UNCHANGED <<envVars, rngVars, engineVars>>

\* the for loop is exhausted: np.save(q_table_path, q_table)
TrainSave ==
    /\ tpc = "for"
    /\ ~(train_episode + 1 < args.total_episodes)
    /\ saved' = [written |-> TRUE, q |-> train_q_table]
    /\ tpc' = "exit"
    /\ UNCHANGED <<args, train_q_table, train_episode, current_state, done,
                   epsilon, episode_reward, episode_steps>>
    /\ UNCHANGED <<envVars, rngVars, engineVars>>

NextTrain ==
    \/ TrainEpisodeBegin
    \/ TrainStep
    \/ TrainRaise
    \/ TrainSave

\* a run of train.py
SpecTrain == InitTrain /\ [][NextTrain]_vars

----------------------------------------------------------------------------
(* Properties of StoneGameEnv *)

StepCalled == call.op = "step"

LegalCall == StepCalled /\ call.action + 1 <= call.pre

\* C1: a step whose action asks for more stones than remain (also on an
\* already terminated episode, 0 stones) forces stones_remaining to 0 and
\* returns (0, -10.0, true); the opponent does not move.
C1_IllegalMove ==
    (StepCalled /\ call.action + 1 > call.pre) =>
        /\ stones_remaining = 0
        /\ ret = [observation |-> 0, reward |-> -10, terminated |-> TRUE]
        /\ call.opp = 0
        /\ ~call.drew
        /\ call.branch = "illegal"

\* an illegal step on an episode that has already terminated
C1_Witness ==
    /\ StepCalled /\ call.prev = "step"
    /\ call.pre = 0 /\ call.action = 0
    /\ ret.reward = -10

\* C2: from 1..3 stones, taking exactly what remains returns (0, +1.0, true);
\* the opponent does not move, no random number is drawn and the pile is
\* exactly 0.
C2_Win ==
    (StepCalled /\ call.pre \in 1..3 /\ call.action + 1 = call.pre) =>
        /\ ret = [observation |-> 0, reward |-> 1, terminated |-> TRUE]
        /\ stones_remaining = 0
        /\ call.opp = 0
        /\ ~call.drew
        /\ call.branch = "win"

\* the agent takes the last three stones
C2_Witness ==
    /\ StepCalled /\ call.pre = 3 /\ call.action = 2
    /\ ret.reward = 1 /\ stones_remaining = 0

\* C3: when the opponent replies from a pile p with p mod 4 # 0 it takes
\* exactly p mod 4 stones and leaves a multiple of 4.
C3_OpponentOptimal ==
    (StepCalled /\ call.branch = "opponent" /\ call.mid % 4 # 0) =>
        /\ call.opp = call.mid % 4
        /\ stones_remaining % 4 = 0

\* C4: when the opponent's rule yields no move it takes a drawn amount of
\* 1..3 clamped to the pile; every reply of the opponent removes at least 1
\* and at most min(3, p) stones, so the pile never becomes negative.
C4_OpponentBounds ==
    (StepCalled /\ call.branch = "opponent") =>
        /\ call.drew <=> (call.mid - 1) % 4 = 0
        /\ call.drew => \E d \in 1..3 : call.opp = Min(d, call.mid)
        /\ call.opp >= 1
        /\ call.opp <= Min(3, call.mid)
        /\ stones_remaining = call.mid - call.opp
        /\ stones_remaining >= 0

\* the opponent draws with one stone left: any draw is clamped to 1
C4_Witness ==
    /\ StepCalled /\ call.branch = "opponent"
    /\ call.drew /\ call.mid = 1 /\ call.opp = 1

\* C5: after a legal move that leaves stones, step returns (0, -1.0, true)
\* exactly when the opponent's reply emptied the pile and (s', 0.0, false)
\* with s' >= 1 otherwise; -1.0 is returned in no other case.
C5_OpponentReply ==
    /\ (StepCalled /\ call.branch = "opponent") =>
        IF call.mid - call.opp = 0
        THEN ret = [observation |-> 0, reward |-> -1, terminated |-> TRUE]
        ELSE /\ ret = [observation |-> stones_remaining, reward |-> 0,
                       terminated |-> FALSE]
             /\ stones_remaining >= 1
    /\ (StepCalled /\ LegalCall /\ call.mid >= 1) => call.branch = "opponent"
    /\ ret.reward = -1 =>
        /\ StepCalled /\ call.branch = "opponent"
        /\ call.opp >= 1 /\ call.opp = call.mid

\* the opponent takes the last stones
C5_Witness ==
    /\ StepCalled /\ call.branch = "opponent"
    /\ call.mid = 1 /\ ret.reward = -1 /\ ret.terminated

\* C6: in every state reached by reset and step calls, step returns
\* terminated = true exactly when the returned observation is 0.
C6_TerminatedIffZero ==
    StepCalled =>
        /\ ret.observation = stones_remaining
        /\ ret.terminated <=> ret.observation = 0

\* a step from reset play that does not terminate, 5 stones left
C6_Witness ==
    /\ StepCalled /\ ~ret.terminated
    /\ ret.observation = 5 /\ Len(episode) = 4

\* C7: a legal agent move removes exactly action + 1 stones (1 to 3); with
\* the opponent's reply a legal step lowers stones_remaining by 1 to 6.
C7_AgentMove ==
    (LegalCall /\ call.pre > 0) =>
        /\ call.pre - call.mid = call.action + 1
        /\ call.pre - call.mid \in 1..3
        /\ call.pre - stones_remaining \in 1..6
        /\ call.pre - stones_remaining = (call.action + 1) + call.opp

\* agent and opponent take three stones each
C7_Witness ==
    /\ LegalCall /\ call.action = 2 /\ call.opp = 3
    /\ call.pre - stones_remaining = 6

\* C8: stones_remaining always lies in 0..21, no step raises it, and only
\* reset raises it.
C8_Monotone ==
    /\ [](stones_remaining \in 0..initial_stones)
    /\ [][call'.op = "step" => stones_remaining' <= stones_remaining]_vars
    /\ [][stones_remaining' > stones_remaining => call'.op = "reset"]_vars

\* reset raises the pile of a running episode
C8_Witness ==
    /\ call.op = "reset" /\ call.prev = "step"
    /\ call.pre = 13 /\ stones_remaining = initial_stones

\* C9: reset is enabled in every state, sets stones_remaining to 21 and
\* returns 21; a second reset with no step in between changes nothing.
C9_Reset ==
    /\ [](ENABLED Reset)
    /\ [](call.op = "reset" =>
            stones_remaining = 21 /\ ret.observation = 21)
    /\ [][(call.op = "reset" /\ call'.op = "reset") =>
            (stones_remaining' = stones_remaining /\ ret' = ret)]_vars

\* reset called right after reset
C9_Witness ==
    /\ call.op = "reset" /\ call.prev = "reset"
    /\ stones_remaining = 21 /\ ret.observation = 21

C20_ResetSeeds ==
    (call.op = "reset" /\ call.seed # NoSeed) => np_random = Seeded(call.seed)

----------------------------------------------------------------------------
(* Properties of GameEngine *)

\* C10: a move submitted while it is not the mover's turn (turn = "ai" when
\* a click is handled) is a no-op: stones_remaining and turn stay unchanged.
C10_OutOfTurnNoOp ==
    [][(pc = "events" /\ events # <<>> /\ turn = "ai") =>
        (stones_remaining' = stones_remaining /\ turn' = turn)]_vars

\* the AI is about to move in this frame
AIToMove == pc = "events" /\ events = <<>> /\ is_ai_turn

\* the step is a move of the AI
AIMoved == AIToMove /\ (turn' = "human" \/ game_state' = "game_over")

\* C12: with a Q-table loaded and s >= 1 stones, the AI takes a + 1 stones
\* for the lowest legal action a of maximal q_table[s, a]; it takes at least
\* one stone and never more than remain.
C12_AIMove ==
    [][(AIMoved /\ q_table.loaded /\ stones_remaining >= 1) =>
        LET s == stones_remaining
            took == s - stones_remaining'
            legal == {a \in 0..2 : a + 1 <= s}
        IN /\ took >= 1 /\ took <= s /\ stones_remaining' >= 0
           /\ last_move'.ai = took
           /\ \E a \in legal :
                /\ took = a + 1
                /\ \A b \in legal : q_table.q[s][b] <= q_table.q[s][a]
                /\ \A b \in legal : b < a => q_table.q[s][b] < q_table.q[s][a]
      ]_vars

\* the AI has broken the tie between taking 2 and taking 3 by taking 2
C12_Witness ==
    /\ q_table.loaded /\ q_table.q = QTie
    /\ pc = "run" /\ turn = "human" /\ game_state = "playing"
    /\ last_move.ai = 2 /\ stones_remaining = 16

\* C13: without a Q-table the AI plays the policy of the environment's
\* opponent: from every pile both may take the same numbers of stones.
C13_FallbackIsOpponent ==
    (AIToMove /\ ~q_table.loaded) =>
        LET p == stones_remaining IN
        {Min(fallback_stones_to_take(p, d), p) : d \in randint_1_3}
            = {opponent_stones_to_take(p, d) : d \in randint_1_4}

\* C14: a click on "Take k" with k > stones_remaining changes none of
\* stones_remaining, turn, last_move, winner, wins, game_state; interactive
\* play never calls step, so the -10 transition is never taken.
C14_Masked ==
    /\ [](call.op # "step" /\ ret.reward # -10)
    /\ [][(pc = "events" /\ events # <<>>
            /\ Head(events).type = "MOUSEBUTTONDOWN"
            /\ Head(events).button > stones_remaining) =>
          UNCHANGED <<stones_remaining, turn, last_move, winner, wins,
                      game_state>>]_vars

\* on the human's turn a click on "Take 3" was handled with 2 stones left
C14_Witness ==
    /\ handled = [type |-> "MOUSEBUTTONDOWN", button |-> 3]
    /\ pc = "events" /\ ~is_ai_turn
    /\ turn = "human" /\ game_state = "playing"
    /\ stones_remaining = 2 /\ last_move.ai # 0

\* C15: every change of stones_remaining is the effect of a reset or step
\* call of the environment.
C15_OnlyEnvMutates ==
    [][stones_remaining' # stones_remaining =>
        /\ call' # call
        /\ call'.op \in {"reset", "step"}
        /\ call'.pre = stones_remaining]_vars

----------------------------------------------------------------------------
(* The trainer *)

\* the largest entry of a row of the table
RowMax(row) ==
    CHOOSE m \in {row[a] : a \in action_space} :
        \A b \in action_space : ~FLess(m, row[b])

\* C16: every iteration of the training loop that reaches env.step, the
\* terminal one included, writes exactly the entry Q[observation, action],
\* with Q + alpha * (reward + gamma * max_a Q[next_observation, a] - Q)
\* computed from the table before the write; next_observation is a row of
\* the table, every other entry keeps its value, and no other statement of
\* the trainer writes the table.
C16_BellmanUpdate ==
    [][IF tpc = "while" /\ tpc' # "raised"
       THEN LET observation == current_state
                action == call'.action
                next_observation == ret'.observation
                old == train_q_table[observation][action]
            IN /\ next_observation \in observation_space
               /\ train_q_table'[observation][action] =
                     FAdd(old,
                          FMul(args.learning_rate,
                               FSub(FAdd(FFromInt(ret'.reward),
                                         FMul(args.gamma,
                                              RowMax(train_q_table[next_observation]))),
                                    old)))
               /\ \A s \in observation_space, a \in action_space :
                     <<s, a>> # <<observation, action>>
                        => train_q_table'[s][a] = train_q_table[s][a]
       ELSE train_q_table' = train_q_table]_vars

\* the second episode has ended with a win: with learning rate 0.5 the
\* terminal update left 0.5 in Q[1, 0] in the first episode, and the update
\* of Q[5, 2] in the second brought 0.5 * 0.9 * 0.5 = 0.225 back from row 1
C16_Witness ==
    /\ tpc = "for" /\ train_episode = 1
    /\ ret.terminated /\ ret.reward = 1 /\ ret.observation = 0
    /\ train_q_table[5][2] = FDecimal(225, 1000)
    /\ train_q_table[1][0] # FZero

\* start >= end, duration > 0 (step >= 0 holds of every episode index)
SchedulePrecondition ==
    /\ ~FLess(args.start_epsilon, args.end_epsilon)
    /\ FLess(FZero, duration_of(args))

\* C17: once the loop has computed epsilon for the running episode, with
\* start >= end and duration > 0, epsilon lies in [end, start], is no
\* larger than the value of any earlier episode, equals start in episode 0
\* and equals end in every episode whose index is at least the duration.
C17_Schedule ==
    (tpc \in {"while", "for"} /\ call.op = "step" /\ SchedulePrecondition) =>
        /\ ~FLess(epsilon, args.end_epsilon)
        /\ ~FLess(args.start_epsilon, epsilon)
        /\ \A k \in 0..train_episode :
              ~FLess(linear_schedule(args.start_epsilon, args.end_epsilon,
                                     duration_of(args), k), epsilon)
        /\ train_episode = 0 => epsilon = args.start_epsilon
        /\ ~FLess(FFromInt(train_episode), duration_of(args))
              => epsilon = args.end_epsilon

\* the configurations the trainer is to refuse
InvalidConfiguration ==
    \/ args.total_episodes <= 0
    \/ ~FLess(FZero, args.exploration_fraction)
    \/ ~FLess(FZero, args.learning_rate) \/ FLess(FOne, args.learning_rate)
    \/ FLess(args.gamma, FZero) \/ FLess(FOne, args.gamma)
    \/ FLess(args.start_epsilon, FZero) \/ FLess(FOne, args.start_epsilon)
    \/ FLess(args.end_epsilon, FZero) \/ FLess(FOne, args.end_epsilon)
    \/ FLess(args.start_epsilon, args.end_epsilon)

\* C18: a run with an invalid configuration calls neither reset nor step,
\* writes no entry of the table, saves no table and does not complete.
C18_FailFast ==
    (tpc # "idle" /\ InvalidConfiguration) =>
        /\ call = NoCall
        /\ train_q_table = zeros
        /\ ~saved.written
        /\ tpc # "exit"

----------------------------------------------------------------------------
(* The mod-4 agent *)

\* the piles an agent can face after the first k steps of the episode when
\* each of these steps took (pile mod 4) stones from a pile that is not a
\* multiple of 4, for every value the opponent's generator can draw
RECURSIVE Mod4Piles(_)
Mod4Piles(k) ==
    IF k = 0 THEN {initial_stones}
    ELSE {step(p, episode[k], d).stones :
            p \in {q \in Mod4Piles(k - 1) :
                      /\ q >= 1 /\ q % 4 # 0
                      /\ stones_to_take(episode[k]) = q % 4},
            d \in randint_1_4}

\* since the last reset the agent has played (stones_remaining mod 4)
Mod4Played == episode # <<>> /\ stones_remaining \in Mod4Piles(Len(episode))

\* C21: while the agent plays (stones_remaining mod 4) from reset, no step
\* returns -1 or -10, a step that does not end the episode leaves a pile
\* that is not a multiple of 4 and is at least 2 smaller than before, a
\* step that ends it returns (0, +1, true), and the sixth step ends it.
C21_Mod4Wins ==
    Mod4Played =>
        /\ StepCalled
        /\ ret.reward \notin {0 - 1, 0 - 10}
        /\ ~ret.terminated =>
              /\ stones_remaining % 4 # 0
              /\ stones_remaining >= 1
              /\ stones_remaining <= call.pre - 2
        /\ ret.terminated =>
              ret = [observation |-> 0, reward |-> 1, terminated |-> TRUE]
        /\ Len(episode) >= 6 => ret.terminated

\* the mod-4 agent has won its episode
C21_Witness ==
    /\ Mod4Played
    /\ ret = [observation |-> 0, reward |-> 1, terminated |-> TRUE]
    /\ call.pre = 1 /\ call.action = 0

----------------------------------------------------------------------------
(* Episodes of the trainer *)

\* the most steps an episode from reset can have when every step that does
\* not end it removes two stones or more
MostSteps == (initial_stones + 1) \div 2

\* C22: inside the while loop the episode has not ended, the pile is at
\* least 1 and has lost at least 2 stones per step taken, so that fewer
\* than 11 steps have been taken; a step that does not end the episode
\* lowers stones_remaining by at least 2; and the reset of the next episode
\* follows the terminal step of the previous one.
C22_EpisodeTerminates ==
    /\ [](tpc = "while" =>
            /\ ~done /\ ~ret.terminated
            /\ stones_remaining >= 1
            /\ stones_remaining <= initial_stones - 2 * episode_steps
            /\ episode_steps < MostSteps)
    /\ [](episode_steps <= MostSteps)
    /\ [](tpc = "for" /\ call # NoCall => done /\ ret.terminated)
    /\ [][(tpc = "while" /\ tpc' = "while")
            => stones_remaining' <= stones_remaining - 2]_vars
    /\ [][train_episode' # train_episode =>
            /\ call'.op = "reset"
            /\ call = NoCall \/ (call.op = "step" /\ ret.terminated /\ done)
            /\ stones_remaining' = initial_stones]_vars

\* a second episode is running after the first ended with its terminal step
C22_Witness ==
    /\ tpc = "while" /\ train_episode = 1
    /\ episode_steps = 2 /\ stones_remaining = 13
    /\ call.op = "step"

\* C23: row 0 of the table is zero at all times, the state an update is
\* made for is at least 1, and on a terminal transition next_observation
\* is 0 and the target reward + gamma * max_a Q[next_observation, a] is
\* the reward.
C23_ZeroRow ==
    /\ [](\A a \in action_space : train_q_table[0][a] = FZero)
    /\ [](tpc = "while" => current_state >= 1)
    /\ [][(tpc = "while" /\ tpc' = "for") =>
            /\ current_state >= 1
            /\ ret'.terminated /\ ret'.observation = 0
            /\ FAdd(FFromInt(ret'.reward),
                    FMul(args.gamma,
                         RowMax(train_q_table[ret'.observation])))
                  = FFromInt(ret'.reward)]_vars

\* an episode ended with an illegal move from 1 stone after an earlier
\* episode had been won from there: with learning rate 0.5 the table holds
\* 0.5 * -10 = -5 and 0.5 * 1 = 0.5 in row 1
C23_Witness ==
    /\ tpc = "for" /\ ret.terminated /\ ret.reward = 0 - 10
    /\ train_q_table[1][1] = FFromInt(0 - 5)
    /\ train_q_table[1][0] = FDecimal(5, 10)
    /\ train_q_table[0] = [a \in action_space |-> FZero]

----------------------------------------------------------------------------
(* Turns and games of the interactive engine *)

\* the step applies a move of the human: a click handled by the event loop
\* removes stones
HumanMoved ==
    /\ pc = "events" /\ events # <<>>
    /\ stones_remaining' < stones_remaining

\* the step applies a move of the AI
AIApplied == AIToMove /\ stones_remaining' < stones_remaining

\* C24: moves alternate.  A human move is applied only when turn is
\* "human" and, unless it wins, leaves turn = "ai"; an AI move is applied
\* only when turn is "ai" and, unless it wins, leaves turn = "human".
C24_Alternate ==
    /\ [][HumanMoved =>
            /\ turn = "human"
            /\ game_state' = "playing" => turn' = "ai"]_vars
    /\ [][AIApplied =>
            /\ turn = "ai"
            /\ game_state' = "playing" => turn' = "human"]_vars

\* C25: game_over holds only with no stones left and a winner set; a game
\* ends with the move that takes the last stone, the mover becomes the
\* winner and the mover's counter alone goes up by 1; the counters change
\* at no other time; game_over is left only for the menu, and the menu only
\* for a game of 21 stones with turn = "human", no winner and the counters
\* as they were.
C25_GameOver ==
    /\ [](game_state = "game_over" =>
            stones_remaining = 0 /\ winner \in {"Human", "AI"})
    /\ [][(game_state = "playing" /\ game_state' # "playing") =>
            /\ game_state' = "game_over"
            /\ stones_remaining >= 1 /\ stones_remaining' = 0
            /\ HumanMoved \/ AIApplied
            /\ HumanMoved =>
                  /\ winner' = "Human"
                  /\ wins' = [wins EXCEPT !.human = @ + 1]
            /\ AIApplied =>
                  /\ winner' = "AI"
                  /\ wins' = [wins EXCEPT !.ai = @ + 1]]_vars
    /\ [][wins' # wins => (game_state = "playing" /\ game_state' = "game_over")]_vars
    /\ [][(game_state = "game_over" /\ game_state' # "game_over") =>
            /\ game_state' = "menu"
            /\ wins' = wins]_vars
    /\ [][(game_state = "menu" /\ game_state' # "menu") =>
            /\ game_state' = "playing"
            /\ stones_remaining' = initial_stones
            /\ turn' = "human" /\ winner' = "None"
            /\ wins' = wins]_vars

\* the AI has won a game and the next game has begun
C25_Witness ==
    /\ game_state = "playing" /\ stones_remaining = initial_stones
    /\ turn = "human" /\ winner = "None"
    /\ wins = [human |-> 0, ai |-> 1]

\* C26: whenever the AI is to move, the game is being played, it is the
\* AI's turn and at least one stone remains, so that some action is legal;
\* no step of the AI ends the game with the stones untouched or with the
\* human as winner, which is what the branch for an empty set of legal
\* actions would do.
C26_AIHasMoves ==
    /\ [](AIToMove =>
            /\ game_state = "playing" /\ turn = "ai"
            /\ stones_remaining >= 1
            /\ {a \in action_space : a + 1 <= stones_remaining} # {})
    /\ [][(AIToMove /\ game_state' = "game_over") =>
            /\ stones_remaining' = 0 /\ stones_remaining >= 1
            /\ last_move'.ai = stones_remaining
            /\ winner' = "AI"]_vars

\* the AI, playing from a table, has taken the last stone of a pile of 1,
\* where a single action is legal
C26_Witness ==
    /\ q_table.loaded
    /\ game_state = "game_over" /\ winner = "AI"
    /\ last_move.ai = 1 /\ stones_remaining = 0

====
